---- MODULE Spec2Model ----
(***************************************************************************)
(* Model of cloudbaseinit/metadata/services/gportal.py: the GPortal        *)
(* metadata service (GPortalService).                                      *)
(*                                                                         *)
(* Python values are modelled as tagged records so that values of          *)
(* different Python types can be compared: None is NoneVal, a str is       *)
(* Str(<<chars>>) (a sequence of one-character strings), a raised          *)
(* exception is Raised(<<type>>).                                          *)
(***************************************************************************)
EXTENDS Integers, Sequences, FiniteSets, TLC

\* ---------------------------------------------------------------- bounds
\* largest CONF.retry_count explored
MaxRetryCount == 3
\* longest body the password endpoint answers with
MaxBodyLen == 2
\* most HTTP GETs of <base_url>/v1.json explored on one service instance
MaxGets == 3

\* ------------------------------------------------------- python values
NoneVal == [tag |-> "None"]
Str(s) == [tag |-> "str", chars |-> s]
Raised(t) == [tag |-> "raise", type |-> t]

Bool(b) == [tag |-> "bool", v |-> b]

IsNone(v) == v.tag = "None"
IsRaised(v) == v.tag = "raise"

\* Python truthiness of None / str: `not password`
Falsy(v) == \/ v.tag = "None"
            \/ (v.tag = "str" /\ v.chars = <<>>)

\* characters of a password body; " " is the whitespace str.strip() removes
BodyChars == {" ", "p"}
IsSpace(c) == c = " "

SeqsUpTo(S, n) == UNION {[1..k -> S] : k \in 0..n}

RECURSIVE LStrip(_)
LStrip(s) == IF s # <<>> /\ IsSpace(Head(s)) THEN LStrip(Tail(s)) ELSE s

RECURSIVE RStrip(_)
RStrip(s) == IF s # <<>> /\ IsSpace(s[Len(s)])
             THEN RStrip(SubSeq(s, 1, Len(s) - 1)) ELSE s

\* str.strip(): leading and trailing whitespace removed
Strip(s) == RStrip(LStrip(s))

\* ------------------------------------------------- get_admin_password
\* What one call of self._get_data(<base_url>/password) followed by
\* encoding.get_as_string does: a body, a requests.RequestException that
\* carries a response, one that carries none (ex.response is None: a
\* connection error), or any other exception.
Bodies == SeqsUpTo(BodyChars, MaxBodyLen)
PwOutcomes == {[kind |-> "body", chars |-> b] : b \in Bodies}
              \cup {[kind |-> "RequestException", response |-> r] : r \in BOOLEAN}
              \cup {[kind |-> "Exception"]}

\* state of the loop: the local `password`, whether an exception escaped,
\* whether `break` ran, and per attempt what happened and how often
\* time.sleep ran before the next attempt
PwStart == [password |-> NoneVal, raised |-> FALSE, broke |-> FALSE, log |-> <<>>]

\* the tail of the loop body without its `break`
PwTailNoBreak(st, o, slept) ==
    [st EXCEPT !.log = Append(@, [outcome |-> o, sleeps |-> slept])]

\* lines 88-93: the tail of the loop body
PwTail(st, o, slept) ==
    IF Falsy(st.password)
    THEN [st EXCEPT !.log = Append(@, [outcome |-> o, sleeps |-> slept])]
    ELSE [st EXCEPT !.broke = TRUE,
                    !.log = Append(@, [outcome |-> o, sleeps |-> slept])]

\* lines 74-93: one iteration of `for _ in range(CONF.retry_count)`
PwAttempt(st, o) ==
    IF o.kind = "body"
    THEN PwTail([st EXCEPT !.password = Str(Strip(o.chars))], o, 0)
    ELSE IF o.kind = "RequestException"
    THEN IF o.response
         THEN PwTail(st, o, 1)
         \* ex.response is None: ex.response.status_code raises
         \* AttributeError inside the handler, which leaves the function
         ELSE [st EXCEPT !.raised = TRUE,
                         !.log = Append(@, [outcome |-> o, sleeps |-> 0])]
    ELSE [st EXCEPT !.log = Append(@, [outcome |-> o, sleeps |-> 1])]

RECURSIVE PwLoop(_, _, _)
PwLoop(st, script, i) ==
    IF i > Len(script) \/ st.raised \/ st.broke
    THEN st
    ELSE PwLoop(PwAttempt(st, script[i]), script, i + 1)

\* lines 63-95; script[k] is what the k-th request would meet
get_admin_password(script) ==
    LET st == PwLoop(PwStart, script, 1)
    IN [result |-> IF st.raised THEN Raised("AttributeError") ELSE st.password,
        log |-> st.log]

\* ------------------------------------------------ the metadata document
\* A parsed document is a record of the fields the service reads; a key
\* the document lacks is NoneVal, which is what dict.get returns for it.
IntVal(n) == [tag |-> "int", v |-> n]
List(items) == [tag |-> "list", items |-> items]
\* a JSON object whose keys keep the document's order
Dict(items) == [tag |-> "dict", items |-> items]

\* `not x` for the values a document section can hold
Empty(v) == \/ Falsy(v)
            \/ (v.tag \in {"list", "dict"} /\ v.items = <<>>)

\* str.upper() on the characters a MAC address is written with
UpperChar(c) ==
    CASE c = "a" -> "A" [] c = "b" -> "B" [] c = "c" -> "C"
      [] c = "d" -> "D" [] c = "e" -> "E" [] c = "f" -> "F"
      [] OTHER -> c
Upper(s) == [i \in DOMAIN s |-> UpperChar(s[i])]

\* '%s' % i for a non-negative integer
DigitChar(d) == <<"0", "1", "2", "3", "4", "5", "6", "7", "8", "9">>[d + 1]
RECURSIVE IntToStr(_)
IntToStr(n) == IF n < 10 THEN DigitChar(n)
               ELSE IntToStr(n \div 10) \o DigitChar(n % 10)

\* number of one bits of a netmask word
RECURSIVE PopCount(_)
PopCount(w) == IF w = 0 THEN 0 ELSE (w % 2) + PopCount(w \div 2)
RECURSIVE PrefixLen(_)
PrefixLen(words) == IF words = <<>> THEN 0
                    ELSE PopCount(Head(words)) + PrefixLen(Tail(words))
\* network_utils.ip_netmask_to_cidr(address, netmask)
ip_netmask_to_cidr(address, netmask) ==
    address \o "/" \o IntToStr(PrefixLen(netmask))

\* nic.get("mtu", 1500)
DefaultMtu == 1500

\* a Link whose MAC is taken as written
LinkRawMac(i, t, nic) ==
    [id |-> "interface" \o IntToStr(i),
     name |-> "Network " \o t,
     type |-> "physical",
     enabled |-> TRUE,
     mac_address |-> nic.mac,
     mtu |-> IF IsNone(nic.mtu) THEN IntVal(DefaultMtu) ELSE nic.mtu,
     bond |-> NoneVal, vlan_link |-> NoneVal, vlan_id |-> NoneVal]

Link(i, t, nic) ==
    [id |-> "interface" \o IntToStr(i),
     name |-> "Network " \o t,
     type |-> "physical",
     enabled |-> TRUE,
     mac_address |-> Str(Upper(nic.mac.chars)),
     mtu |-> IF IsNone(nic.mtu) THEN IntVal(DefaultMtu) ELSE nic.mtu,
     bond |-> NoneVal, vlan_link |-> NoneVal, vlan_id |-> NoneVal]

\* lines 161-176: the loop over the interface classes, from the i-th on
RECURSIVE LinksLoop(_, _, _)
LinksLoop(items, i, links) ==
    IF i > Len(items) THEN List(links)
    ELSE LET t == items[i].key
             descs == items[i].value
         IN \* interfaces_config[t][0] on an empty list
            IF descs = <<>> THEN Raised("IndexError")
            \* nic.get("mac") is None: None.upper()
            ELSE IF IsNone(descs[1].mac) THEN Raised("AttributeError")
            ELSE LinksLoop(items, i + 1, Append(links, Link(i, t, descs[1])))

\* lines 149-178, md being what self._get_meta_data() returned
_net_parse_links(md) ==
    IF IsRaised(md) THEN md
    ELSE IF IsNone(md) THEN Raised("AttributeError")
    ELSE IF Empty(md.interfaces) THEN List(<<>>)
    ELSE LinksLoop(md.interfaces.items, 1, <<>>)

\* dict.get(key, default) on a JSON object
DictHas(d, k) == \E i \in DOMAIN d.items : d.items[i].key = k
DictGet(d, k, default) ==
    IF DictHas(d, k)
    THEN d.items[CHOOSE i \in DOMAIN d.items : d.items[i].key = k].value
    ELSE default

Route(cidr, gw) == [network_cidr |-> cidr, gateway |-> gw]

\* lines 224-228: one Route per document-level route, in order
AdditionalRoutes(rs) ==
    [k \in DOMAIN rs |-> Route(rs[k].destination, rs[k].gateway)]

\* the IPv4 default route for both families
DefaultGatewayCidrV4Only(ip_version) == "0.0.0.0/0"

\* lines 207-210
DefaultGatewayCidr(ip_version) ==
    IF ip_version = "ipv4" THEN "0.0.0.0/0" ELSE "::/0"

\* line 216: only the class named "public" gets a gateway and nameservers
IsPublic(nic_type) == nic_type = "public"

\* lines 203-237: the Networks one family of one interface contributes
SubnetNetworks(nic_type, nic, ip_version, dns_config, additional_routes) ==
    LET subnet == IF ip_version = "ipv4" THEN nic.ipv4 ELSE nic.ipv6
        routes == (IF IsPublic(nic_type)
                   THEN <<Route(DefaultGatewayCidr(ip_version), subnet.gateway)>>
                   ELSE <<>>) \o AdditionalRoutes(additional_routes)
        nameservers == IF IsPublic(nic_type)
                       THEN DictGet(dns_config, "nameservers", <<>>)
                       ELSE <<>>
    IN IF IsNone(subnet) THEN <<>>
       ELSE <<[link |-> "Network " \o nic_type,
               address_cidr |-> ip_netmask_to_cidr(subnet.address,
                                                   subnet.netmask),
               routes |-> routes,
               dns_nameservers |-> nameservers]>>

\* lines 198-237: the loop over the interface classes, from the i-th on
RECURSIVE SubnetsLoop(_, _, _, _, _)
SubnetsLoop(items, i, dns_config, additional_routes, networks) ==
    IF i > Len(items) THEN List(networks)
    ELSE LET nic_type == items[i].key
             descs == items[i].value
         IN \* interfaces_config[nic_type][0] on an empty list
            IF descs = <<>> THEN Raised("IndexError")
            ELSE SubnetsLoop(items, i + 1, dns_config, additional_routes,
                     networks
                     \o SubnetNetworks(nic_type, descs[1], "ipv4",
                                       dns_config, additional_routes)
                     \o SubnetNetworks(nic_type, descs[1], "ipv6",
                                       dns_config, additional_routes))

\* lines 180-239
_net_parse_subnets(md) ==
    IF IsRaised(md) THEN md
    ELSE IF IsNone(md) THEN Raised("AttributeError")
    ELSE IF Empty(md.interfaces) THEN List(<<>>)
    ELSE IF Empty(md.dns) THEN List(<<>>)
    ELSE SubnetsLoop(md.interfaces.items, 1, md.dns,
                     IF IsNone(md.routes) THEN <<>> ELSE md.routes.items,
                     <<>>)

\* lines 241-257
_net_parse_services(md) ==
    IF IsRaised(md) THEN md
    ELSE IF IsNone(md) THEN Raised("AttributeError")
    ELSE IF Empty(md.dns) THEN List(<<>>)
    ELSE List(<<[addresses |-> DictGet(md.dns, "nameservers", <<>>),
                 search |-> NoneVal]>>)

\* a model is returned only when networks were derived
NetworkDetailsNoPartial(md, links) ==
    IF IsRaised(links) THEN links
    ELSE IF Len(links.items) = 0 THEN NoneVal
    ELSE LET networks == _net_parse_subnets(md)
             services == _net_parse_services(md)
         IN IF IsRaised(networks) THEN networks
            ELSE IF IsRaised(services) THEN services
            ELSE IF networks.items = <<>> THEN NoneVal
            ELSE [tag |-> "NetworkDetailsV2", links |-> links.items,
                  networks |-> networks.items, services |-> services.items]

\* lines 131-140: what follows the interfaces check
NetworkDetailsFromLinks(md, links) ==
    IF IsRaised(links) THEN links
    ELSE IF Len(links.items) = 0 THEN NoneVal
    ELSE LET networks == _net_parse_subnets(md)
             services == _net_parse_services(md)
         IN IF IsRaised(networks) THEN networks
            ELSE IF IsRaised(services) THEN services
            ELSE [tag |-> "NetworkDetailsV2", links |-> links.items,
                  networks |-> networks.items, services |-> services.items]

\* lines 122-140
get_network_details_v2(md) ==
    IF IsRaised(md) THEN md
    ELSE IF IsNone(md) THEN Raised("AttributeError")
    ELSE IF Empty(md.interfaces) THEN NoneVal
    ELSE NetworkDetailsFromLinks(md, _net_parse_links(md))

\* ------------------------------------------------- fetch and the cache
\* The body GET <base_url>/v1.json answered with, decoded to str: empty,
\* text that is no JSON, the JSON literal null, or a JSON object.
Body(text, doc) == [tag |-> "data", text |-> text, doc |-> doc]
EmptyBody == Body("empty", NoneVal)
InvalidBody == Body("invalid", NoneVal)
NullBody == Body("null", NoneVal)
JsonBody(doc) == Body("json", doc)

\* json.loads(data)
json_loads(data) ==
    IF data.text = "invalid" THEN Raised("JSONDecodeError")
    ELSE IF data.text = "null" THEN NoneVal
    ELSE data.doc

\* the cache of the base class holds no entry for <base_url>/v1.json
NoEntry == [tag |-> "noentry"]

\* without a base URL the url is "None/v1.json": the transport refuses it
\* before any request is sent
NotSent == Raised("MissingSchema")

\* base._get_cache_data(url, decode=True): the cached body when there is
\* one; otherwise exactly one HTTP GET, whose body is stored. A GET that
\* raises stores nothing. o is what the GET meets if it is issued.
_get_cache_data(cache, o) ==
    IF cache # NoEntry THEN [value |-> cache, cache |-> cache, gets |-> 0]
    ELSE IF o = NotSent THEN [value |-> o, cache |-> NoEntry, gets |-> 0]
    ELSE IF IsRaised(o) THEN [value |-> o, cache |-> NoEntry, gets |-> 1]
    ELSE [value |-> o, cache |-> o, gets |-> 1]

\* _get_meta_data calling self._get_data where it should call
\* self._get_cache_data: every call issues the GET
_get_meta_data_uncached(cache, o) ==
    [md |-> IF cache # NoEntry THEN json_loads(cache)
            ELSE IF IsRaised(o) THEN o
            ELSE IF o.text # "empty" THEN json_loads(o)
            ELSE NoneVal,
     cache |-> cache,
     gets |-> IF o = NotSent THEN 0 ELSE 1]

\* lines 259-269
_get_meta_data(cache, o) ==
    LET r == _get_cache_data(cache, o)
        data == r.value
    IN [md |-> IF IsRaised(data) THEN data
               ELSE IF data.text # "empty" THEN json_loads(data)
               ELSE NoneVal,
        cache |-> r.cache,
        gets |-> r.gets]

\* base.BaseMetadataService.load(): a load cycle starts with an empty cache
BaseLoad(cache) == NoEntry

\* load without its try/except: what the fetch raises reaches the caller
load_uncaught(conf, cache, o) ==
    LET r == _get_meta_data(NoEntry, o)
    IN IF ~conf
       THEN [result |-> Bool(FALSE), cache |-> NoEntry, gets |-> 0]
       ELSE IF IsRaised(r.md)
       THEN [result |-> r.md, cache |-> r.cache, gets |-> r.gets]
       ELSE [result |-> Bool(TRUE), cache |-> r.cache, gets |-> r.gets]

\* lines 38-54
load(conf, cache, o) ==
    LET fresh == BaseLoad(cache)
        r == _get_meta_data(fresh, o)
    IN IF ~conf
       THEN [result |-> Bool(FALSE), cache |-> fresh, gets |-> 0]
       \* except Exception: logged, then return False
       ELSE IF IsRaised(r.md)
       THEN [result |-> Bool(FALSE), cache |-> r.cache, gets |-> r.gets]
       ELSE [result |-> Bool(TRUE), cache |-> r.cache, gets |-> r.gets]

\* self._get_meta_data().get(key): None has no get
MdGet(md, field) ==
    IF IsRaised(md) THEN md
    ELSE IF IsNone(md) THEN Raised("AttributeError")
    ELSE md[field]

\* lines 56-61
get_instance_id(md) == MdGet(md, "id")

\* lines 97-102
get_host_name(md) == MdGet(md, "fqdn")

\* str.encode(): the UTF-8 bytes of each character
Utf8(c) == CASE c = "#" -> <<35>>
             [] c = "p" -> <<112>>
             [] c = "U+00E9" -> <<195, 169>>
RECURSIVE Encode(_)
Encode(cs) == IF cs = <<>> THEN <<>> ELSE Utf8(Head(cs)) \o Encode(Tail(cs))

\* lines 104-112
get_user_data(md) ==
    LET data == MdGet(md, "user_data")
    IN IF IsRaised(data) THEN data
       ELSE IF Falsy(data) THEN NoneVal
       ELSE [tag |-> "bytes", bytes |-> Encode(data.chars)]

\* lines 142-147
get_public_keys(md) ==
    LET keys == MdGet(md, "public_keys")
    IN IF IsNone(keys) THEN List(<<>>) ELSE keys

\* ------------------------------------------------ documents explored
Subnet(address, netmask, gateway) ==
    [tag |-> "dict", address |-> address, netmask |-> netmask,
     gateway |-> gateway]
Sub4 == Subnet("176.57.186.5", <<255, 255, 255, 0>>, "176.57.186.1")
Sub6 == Subnet("2a00::5", <<65535, 65535, 65535, 65535, 0, 0, 0, 0>>, "2a00::1")
Mac1 == Str(<<"4", "0", ":", "9", "a", ":", "c", "D">>)

\* the first descriptor of an interface class
Descs == [mac : {NoneVal, Mac1}, mtu : {NoneVal, IntVal(9000)},
          ipv4 : {NoneVal, Sub4}, ipv6 : {NoneVal, Sub6}]
\* a second descriptor, which differs from every first one in every field
Decoy == [mac |-> Str(<<"f", "f", ":", "0", "0">>), mtu |-> IntVal(1400),
          ipv4 |-> Subnet("10.9.9.9", <<255, 0, 0, 0>>, "10.9.9.1"),
          ipv6 |-> Subnet("fd00::9", <<65535, 0, 0, 0, 0, 0, 0, 0>>, "fd00::1")]
DescLists == {<<>>} \cup {<<d>> : d \in Descs} \cup {<<d, Decoy>> : d \in Descs}

Classes == {"public", "private"}
Item(k, v) == [key |-> k, value |-> v]
InterfaceItems ==
    {<<Item(k, v)>> : k \in Classes, v \in DescLists}
    \cup UNION {{<<Item(k1, v1), Item(k2, v2)>> :
                    k2 \in Classes \ {k1},
                    v1 \in DescLists, v2 \in DescLists} : k1 \in Classes}
InterfacesValues == {NoneVal, Dict(<<>>)} \cup {Dict(it) : it \in InterfaceItems}

DnsValues ==
    {NoneVal, Dict(<<>>),
     Dict(<<Item("nameservers", <<"8.8.8.8", "1.1.1.1">>)>>),
     Dict(<<Item("search", <<"example.org">>)>>)}

Route1 == [destination |-> "169.254.169.254/32", gateway |-> "176.57.186.1"]
Route2 == [destination |-> "10.0.0.0/8", gateway |-> "10.0.0.1"]
RoutesValues == {NoneVal, List(<<>>), List(<<Route1>>),
                 List(<<Route1, Route2>>)}

Doc(id, fqdn, user_data, public_keys, interfaces, dns, routes) ==
    [tag |-> "dict", id |-> id, fqdn |-> fqdn, user_data |-> user_data,
     public_keys |-> public_keys, interfaces |-> interfaces, dns |-> dns,
     routes |-> routes]

InstanceId == Str(<<"3", "f", "6", "5">>)
Fqdn == Str(<<"s", "e", "r", "v", "e", "r", "1">>)

\* documents for the network derivations
NetDocs == {Doc(InstanceId, Fqdn, NoneVal, NoneVal, i, d, r) :
              i \in InterfacesValues, d \in DnsValues, r \in RoutesValues}

\* documents for the service's life cycle: the one of the tests, the empty
\* object, one with user data and keys, one with a class without descriptors
PublicOnly(descs) == Dict(<<Item("public", descs)>>)
ServiceDocs ==
    {Doc(InstanceId, Fqdn, NoneVal, List(<<"ssh-rsa A", "ssh-rsa B">>),
         PublicOnly(<<[mac |-> Mac1, mtu |-> NoneVal, ipv4 |-> Sub4,
                       ipv6 |-> NoneVal]>>),
         Dict(<<Item("nameservers", <<"8.8.8.8", "1.1.1.1">>)>>),
         List(<<[destination |-> "169.254.169.254/32",
                 gateway |-> "176.57.186.1"]>>)),
     Doc(NoneVal, NoneVal, NoneVal, NoneVal, NoneVal, NoneVal, NoneVal),
     Doc(InstanceId, Fqdn, Str(<<"#", "p", "U+00E9">>), List(<<>>),
         NoneVal, NoneVal, NoneVal),
     Doc(InstanceId, Fqdn, Str(<<>>), NoneVal, PublicOnly(<<>>),
         NoneVal, NoneVal)}

\* what a GET of <base_url>/v1.json meets when one is issued: nothing is
\* asked of the endpoint while the cache holds the body, and without a
\* base URL the request cannot be sent
NoRequest == [tag |-> "norequest"]
FetchOutcomes(conf, c) ==
    IF c # NoEntry THEN {NoRequest}
    ELSE IF conf
    THEN {Raised("RequestException"), EmptyBody, InvalidBody, NullBody}
         \cup {JsonBody(d) : d \in ServiceDocs}
    ELSE {NotSent}

\* ------------------------------------------------------------- state
VARIABLES
    retry_count,    \* CONF.retry_count
    pwScript,       \* what each request to <base_url>/password meets
    pwCall,         \* the outcome of get_admin_password
    configured,     \* CONF.gportal.metadata_base_url is set
    cache,          \* the cached body of <base_url>/v1.json, or NoEntry
    httpGets,       \* GETs of <base_url>/v1.json issued so far
    loaded,         \* what the most recent load() returned: "none" before
    op,             \* the operation called last
    opGets,         \* GETs of <base_url>/v1.json that operation issued
    met,            \* what its GET met, NoRequest when it issued none
    cycleFetched,   \* a GET answered with a body since the last load() began
    result          \* what it returned, or Raised(..)

vars == <<retry_count, pwScript, pwCall, configured, cache, httpGets,
          loaded, op, opGets, met, cycleFetched, result>>

pwVars == <<retry_count, pwScript, pwCall>>
svcVars == <<configured, cache, httpGets, loaded, op, opGets, met,
             cycleFetched, result>>

NotCalled == [tag |-> "notcalled"]

PwIdle ==
    /\ retry_count = 0
    /\ pwScript = <<>>
    /\ pwCall = NotCalled

SvcFresh ==
    /\ cache = NoEntry
    /\ httpGets = 0
    /\ loaded = "none"
    /\ op = "init"
    /\ opGets = 0
    /\ met = NoRequest
    /\ cycleFetched = FALSE
    /\ result = NoneVal

\* ---- the service's life cycle: load() and the getters
Init ==
    /\ PwIdle
    /\ configured \in BOOLEAN
    /\ SvcFresh

Load ==
    \E o \in FetchOutcomes(configured, BaseLoad(cache)) :
      LET r == load(configured, cache, o)
      IN /\ httpGets + r.gets <= MaxGets
         /\ cache' = r.cache
         /\ httpGets' = httpGets + r.gets
         /\ loaded' = IF r.result = Bool(TRUE) THEN "ok" ELSE "failed"
         /\ op' = "load"
         /\ opGets' = r.gets
         /\ met' = IF r.gets = 0 THEN NoRequest ELSE o
         /\ cycleFetched' = (r.gets > 0 /\ ~IsRaised(o))
         /\ result' = r.result
         /\ UNCHANGED <<pwVars, configured>>

\* the effect of a method that reads the document through
\* self._get_meta_data() and returns value
Reads(r, o, name, value) ==
    /\ httpGets + r.gets <= MaxGets
    /\ cache' = r.cache
    /\ httpGets' = httpGets + r.gets
    /\ op' = name
    /\ opGets' = r.gets
    /\ met' = IF r.gets = 0 THEN NoRequest ELSE o
    /\ cycleFetched' = (cycleFetched \/ (r.gets > 0 /\ ~IsRaised(o)))
    /\ result' = value
    /\ UNCHANGED <<pwVars, configured, loaded>>

GetInstanceId ==
    \E o \in FetchOutcomes(configured, cache) :
      LET r == _get_meta_data(cache, o)
      IN Reads(r, o, "get_instance_id", get_instance_id(r.md))

GetHostName ==
    \E o \in FetchOutcomes(configured, cache) :
      LET r == _get_meta_data(cache, o)
      IN Reads(r, o, "get_host_name", get_host_name(r.md))

GetUserData ==
    \E o \in FetchOutcomes(configured, cache) :
      LET r == _get_meta_data(cache, o)
      IN Reads(r, o, "get_user_data", get_user_data(r.md))

GetPublicKeys ==
    \E o \in FetchOutcomes(configured, cache) :
      LET r == _get_meta_data(cache, o)
      IN Reads(r, o, "get_public_keys", get_public_keys(r.md))

GetNetworkDetailsV2 ==
    \E o \in FetchOutcomes(configured, cache) :
      LET r == _get_meta_data(cache, o)
      IN Reads(r, o, "get_network_details_v2", get_network_details_v2(r.md))

Next ==
    \/ Load
    \/ GetInstanceId
    \/ GetHostName
    \/ GetUserData
    \/ GetPublicKeys
    \/ GetNetworkDetailsV2

Spec == Init /\ [][Next]_vars

\* ======================================================= load, getters
GetterNames == {"get_instance_id", "get_host_name", "get_user_data",
                "get_public_keys", "get_network_details_v2"}

\* C3: load() never raises and returns a boolean: False without any HTTP
\* request when the base URL is unconfigured, False when the fetch or the
\* JSON decode of <base_url>/v1.json raised; and it attempts the retrieval
\* at most once.
C3_LoadNeverRaises ==
    op = "load" =>
      /\ result \in {Bool(TRUE), Bool(FALSE)}
      /\ opGets <= 1
      /\ ~configured => (result = Bool(FALSE) /\ opGets = 0 /\ met = NoRequest)
      /\ (IsRaised(met) \/ met = InvalidBody) => result = Bool(FALSE)

\* a load whose GET was answered with text that is no JSON
C3_Witness ==
    /\ op = "load"
    /\ configured
    /\ opGets = 1
    /\ met = InvalidBody
    /\ result = Bool(FALSE)

C10_LoadedImpliesDocument ==
    loaded = "ok" =>
      /\ cache # NoEntry
      /\ _get_meta_data(cache, NoRequest).md.tag = "dict"
      /\ op \in {"get_instance_id", "get_host_name", "get_user_data",
                 "get_public_keys"} => ~IsRaised(result)

\* ---- the network derivations on a fetched document
InitNet ==
    /\ PwIdle
    /\ configured = TRUE
    /\ cache \in {JsonBody(d) : d \in NetDocs}
    /\ httpGets = 1
    /\ loaded = "ok"
    /\ op = "load"
    /\ opGets = 1
    /\ met = cache
    /\ cycleFetched = TRUE
    /\ result = Bool(TRUE)

NetParseLinks ==
    \E o \in FetchOutcomes(configured, cache) :
      LET r == _get_meta_data(cache, o)
      IN Reads(r, o, "_net_parse_links", _net_parse_links(r.md))

NetParseSubnets ==
    \E o \in FetchOutcomes(configured, cache) :
      LET r == _get_meta_data(cache, o)
      IN Reads(r, o, "_net_parse_subnets", _net_parse_subnets(r.md))

NetParseServices ==
    \E o \in FetchOutcomes(configured, cache) :
      LET r == _get_meta_data(cache, o)
      IN Reads(r, o, "_net_parse_services", _net_parse_services(r.md))

NextNet ==
    \/ NetParseLinks
    \/ NetParseSubnets
    \/ NetParseServices
    \/ GetNetworkDetailsV2

SpecNet == InitNet /\ [][NextNet]_vars

\* ================================================ network derivations
\* the document the derivations read
TheDoc == cache.doc
Items == TheDoc.interfaces.items
NoInterfaces == IsNone(TheDoc.interfaces) \/ TheDoc.interfaces = Dict(<<>>)
NoDns == IsNone(TheDoc.dns) \/ TheDoc.dns = Dict(<<>>)

\* the interfaces section as the data model describes it: every class maps
\* to a non-empty descriptor list whose first descriptor carries a mac
ValidInterfaces ==
    NoInterfaces \/ \A k \in DOMAIN Items :
                      /\ Items[k].value # <<>>
                      /\ ~IsNone(Items[k].value[1].mac)

ExpectedId(k) == CASE k = 1 -> "interface1" [] k = 2 -> "interface2"
ExpectedName(t) == CASE t = "public" -> "Network public"
                     [] t = "private" -> "Network private"
LowerUpper == {<<"a", "A">>, <<"b", "B">>, <<"c", "C">>,
               <<"d", "D">>, <<"e", "E">>, <<"f", "F">>}
\* u is m uppercased
IsUpperOf(u, m) ==
    /\ Len(u) = Len(m)
    /\ \A i \in DOMAIN m :
         IF \E p \in LowerUpper : p[1] = m[i]
         THEN <<m[i], u[i]>> \in LowerUpper
         ELSE u[i] = m[i]

\* C5: on a document with valid interfaces _net_parse_links returns one
\* Link per interface class, in document order, the k-th with id
\* "interface<k>" and name "Network <class>", built from the first
\* descriptor of the class: its MAC uppercased, its mtu or 1500; and the
\* empty list when interfaces is missing or empty.
C5_ParseLinks ==
    (op = "_net_parse_links" /\ ValidInterfaces) =>
      IF NoInterfaces THEN result = List(<<>>)
      ELSE /\ result.tag = "list"
           /\ Len(result.items) = Len(Items)
           /\ \A k \in DOMAIN Items :
                LET link == result.items[k]
                    nic == Items[k].value[1]
                IN /\ link.id = ExpectedId(k)
                   /\ link.name = ExpectedName(Items[k].key)
                   /\ link.mac_address.tag = "str"
                   /\ IsUpperOf(link.mac_address.chars, nic.mac.chars)
                   /\ link.mtu = IF IsNone(nic.mtu) THEN IntVal(1500) ELSE nic.mtu

\* private before public, the private class with two descriptors and no
\* mtu, the public one with an mtu
C5_Witness ==
    /\ op = "_net_parse_links"
    /\ ~NoInterfaces
    /\ ValidInterfaces
    /\ Len(Items) = 2
    /\ Items[1].key = "private"
    /\ Len(Items[1].value) = 2
    /\ IsNone(Items[1].value[1].mtu)
    /\ Items[2].value[1].mtu = IntVal(9000)
    /\ result.tag = "list"
    /\ result.items[1].id = "interface1"
    /\ result.items[1].name = "Network private"
    /\ result.items[1].mtu = IntVal(1500)
    /\ result.items[2].id = "interface2"
    /\ result.items[2].mac_address = Str(<<"4", "0", ":", "9", "A", ":", "C", "D">>)
    /\ result.items[2].mtu = IntVal(9000)

Families == <<"ipv4", "ipv6">>
SubnetOf(k, f) == IF Families[f] = "ipv4" THEN Items[k].value[1].ipv4
                  ELSE Items[k].value[1].ipv6
\* the (class, family) pairs whose subnet block is present
Present == {p \in (DOMAIN Items) \X (1..2) : ~IsNone(SubnetOf(p[1], p[2]))}
\* the place of a present pair among the present pairs, classes in
\* document order and per class ipv4 before ipv6
Rank(p) == Cardinality({q \in Present : q[1] < p[1] \/ (q[1] = p[1] /\ q[2] <= p[2])})
DocRoutes == IF IsNone(TheDoc.routes) THEN <<>> ELSE TheDoc.routes.items
\* the document-level routes, verbatim and in document order
VerbatimRoutes(rs) ==
    /\ Len(rs) = Len(DocRoutes)
    /\ \A j \in DOMAIN DocRoutes :
         /\ rs[j].network_cidr = DocRoutes[j].destination
         /\ rs[j].gateway = DocRoutes[j].gateway
DnsNameservers ==
    IF \E i \in DOMAIN TheDoc.dns.items : TheDoc.dns.items[i].key = "nameservers"
    THEN <<"8.8.8.8", "1.1.1.1">> ELSE <<>>

\* C6: with interfaces and dns present, _net_parse_subnets emits one
\* Network per interface class and family [ipv4, ipv6] whose subnet block
\* is present; a Network of the class "public" carries dns.nameservers and
\* routes that start with the default route of its family (0.0.0.0/0 or
\* ::/0) via the subnet's gateway, followed by every document-level
\* route in order; a Network of another class has no default route and no
\* nameservers, and carries every document-level route whatever its family.
C6_SubnetPolicy ==
    (op = "_net_parse_subnets" /\ ~NoInterfaces /\ ~NoDns
       /\ \A k \in DOMAIN Items : Items[k].value # <<>>) =>
      /\ result.tag = "list"
      /\ Len(result.items) = Cardinality(Present)
      /\ \A p \in Present :
           LET n == result.items[Rank(p)]
               t == Items[p[1]].key
           IN /\ n.link = ExpectedName(t)
              /\ IF t = "public"
                 THEN /\ n.dns_nameservers = DnsNameservers
                      /\ Len(n.routes) = Len(DocRoutes) + 1
                      /\ n.routes[1].network_cidr =
                           (IF p[2] = 1 THEN "0.0.0.0/0" ELSE "::/0")
                      /\ n.routes[1].gateway = SubnetOf(p[1], p[2]).gateway
                      /\ VerbatimRoutes(Tail(n.routes))
                 ELSE /\ n.dns_nameservers = <<>>
                      /\ VerbatimRoutes(n.routes)

\* a private and a public class, both with both families, two
\* document-level routes: four Networks, the last the public IPv6 one
\* carrying the IPv4 routes of the document
C6_Witness ==
    /\ op = "_net_parse_subnets"
    /\ ~NoInterfaces
    /\ Len(Items) = 2
    /\ Items[1].key = "private"
    /\ Len(DocRoutes) = 2
    /\ result.tag = "list"
    /\ Len(result.items) = 4
    /\ result.items[1].routes = <<Route("169.254.169.254/32", "176.57.186.1"),
                                  Route("10.0.0.0/8", "10.0.0.1")>>
    /\ result.items[4].address_cidr = "2a00::5/64"
    /\ result.items[4].dns_nameservers = <<"8.8.8.8", "1.1.1.1">>
    /\ result.items[4].routes = <<Route("::/0", "2a00::1"),
                                  Route("169.254.169.254/32", "176.57.186.1"),
                                  Route("10.0.0.0/8", "10.0.0.1")>>

\* C7: get_network_details_v2 returns None when interfaces is absent or
\* empty (no link can be derived) and a model with links otherwise, also
\* when networks and services are empty: with dns absent,
\* _net_parse_subnets and _net_parse_services return the empty list and the
\* model has links, no networks and no services.
C7_NetworkDetails ==
    /\ (op = "get_network_details_v2" /\ ValidInterfaces) =>
         IF NoInterfaces THEN result = NoneVal
         ELSE /\ result.tag = "NetworkDetailsV2"
              /\ Len(result.links) = Len(Items)
              /\ NoDns => (result.networks = <<>> /\ result.services = <<>>)
    /\ (op = "_net_parse_subnets" /\ NoDns) => result = List(<<>>)
    /\ (op = "_net_parse_services" /\ NoDns) => result = List(<<>>)

\* two classes with subnets of both families, no dns section: a model of
\* two links, no networks, no services
C7_Witness ==
    /\ op = "get_network_details_v2"
    /\ IsNone(TheDoc.dns)
    /\ ~NoInterfaces
    /\ Len(Items) = 2
    /\ \A k \in DOMAIN Items : /\ Items[k].value # <<>>
                               /\ ~IsNone(Items[k].value[1].ipv4)
                               /\ ~IsNone(Items[k].value[1].ipv6)
    /\ result.tag = "NetworkDetailsV2"
    /\ Len(result.links) = 2
    /\ result.networks = <<>>
    /\ result.services = <<>>

\* C8: on a fetched document no derivation raises, whatever sections are
\* malformed or absent.
C8_DerivationsNeverRaise ==
    op \in {"_net_parse_links", "_net_parse_subnets", "_net_parse_services",
            "get_network_details_v2"} => ~IsRaised(result)

\* ---- get_admin_password against a scripted password endpoint
InitPassword ==
    /\ retry_count \in 0..MaxRetryCount
    /\ pwScript = <<>>
    /\ pwCall = NotCalled
    /\ configured = TRUE
    /\ SvcFresh

GetAdminPassword ==
    /\ pwCall = NotCalled
    /\ \E script \in [1..retry_count -> PwOutcomes] :
         /\ pwScript' = script
         /\ pwCall' = [tag |-> "called"] @@ get_admin_password(script)
    /\ UNCHANGED <<retry_count, svcVars>>

NextPassword == GetAdminPassword

SpecPassword == InitPassword /\ [][NextPassword]_vars

\* ================================================= get_admin_password
Called == pwCall.tag = "called"
\* the requests to <base_url>/password the call made
PwRequests == Len(pwCall.log)

Blank(b) == \A i \in DOMAIN b : b[i] = " "
BlankBody(o) == o.kind = "body" /\ Blank(o.chars)
ValidBody(o) == o.kind = "body" /\ ~Blank(o.chars)
TransportFailure(o) == o.kind \in {"RequestException", "Exception"}

\* t is b without its leading and trailing whitespace
IsTrimOf(t, b) ==
    /\ t # <<>>
    /\ t[1] # " "
    /\ t[Len(t)] # " "
    /\ \E i \in 0..Len(b) :
         /\ i + Len(t) <= Len(b)
         /\ SubSeq(b, i + 1, i + Len(t)) = t
         /\ Blank(SubSeq(b, 1, i))
         /\ Blank(SubSeq(b, i + Len(t) + 1, Len(b)))

\* C1: when the password endpoint answers blank on the first N-1 requests
\* and non-blank on the N-th (1 <= N <= retry_count), get_admin_password
\* returns that body without its surrounding whitespace after exactly N
\* requests; when all retry_count answers are blank it returns an empty
\* value after exactly retry_count requests.
C1_PasswordAfterNAttempts ==
    Called =>
      /\ \A N \in 1..retry_count :
           ((\A k \in 1..(N - 1) : BlankBody(pwScript[k])) /\ ValidBody(pwScript[N]))
           => /\ pwCall.result.tag = "str"
              /\ IsTrimOf(pwCall.result.chars, pwScript[N].chars)
              /\ PwRequests = N
      /\ (\A k \in 1..retry_count : BlankBody(pwScript[k]))
           => /\ Falsy(pwCall.result)
              /\ PwRequests = retry_count

\* a blank answer, then a password with whitespace around it, and a
\* request left unused
C1_Witness ==
    /\ Called
    /\ retry_count = 3
    /\ pwScript[1] = [kind |-> "body", chars |-> <<" ">>]
    /\ pwScript[2] = [kind |-> "body", chars |-> <<"p", " ">>]
    /\ pwCall.result = Str(<<"p">>)
    /\ PwRequests = 2

\* C2: get_admin_password never raises: whatever each attempt meets, it
\* makes at most retry_count attempts and returns a value, which is None
\* when every attempt was a transport failure.
C2_NeverRaises ==
    Called =>
      /\ ~IsRaised(pwCall.result)
      /\ PwRequests <= retry_count
      /\ (\A k \in 1..retry_count : TransportFailure(pwScript[k]))
           => IsNone(pwCall.result)

\* C9: exactly one sleep separates every two consecutive attempts, and no
\* sleep follows an attempt that yielded a password.
C9_SleepBetweenAttempts ==
    Called =>
      \A k \in 1..PwRequests :
        /\ k < PwRequests => pwCall.log[k].sleeps = 1
        /\ ValidBody(pwCall.log[k].outcome) => pwCall.log[k].sleeps = 0
====
